---- MODULE Spec2Model ----
(***************************************************************************)
(* Model of the funnel store (context/FunnelContext.tsx, kept in           *)
(* src/unnamed/part_004 lines 1470-2185) and of the events-editor handlers *)
(* that write the routing table through it.                                *)
(*                                                                         *)
(* A FunnelConfig is a record.  pages and event_routing are JavaScript     *)
(* objects used as insertion-ordered maps: they are sequences of records   *)
(* that carry their key (key / name).  Paths are strings, as in the code.  *)
(* Every routing entry and every route object carries the identity of the  *)
(* JavaScript object that holds it (ref / rref), because several handlers  *)
(* write into an object that older FunnelConfig values still point at.     *)
(***************************************************************************)
EXTENDS Integers, Sequences, FiniteSets, TLC

VARIABLES config, past, future, activePageId, now, lastOp, pre, probe,
          issues, exported, view

vars == <<config, past, future, activePageId, now, lastOp, pre, probe,
          issues, exported, view>>

\* what the store hands out: the last list of the validator, the document
\* the last export downloaded (none when the user called it off), the last
\* output of the renderer
outputs == <<issues, exported, view>>

(***************************************************************************)
(* Bounds of the model.                                                    *)
(***************************************************************************)
\* history cap; the source sets 50 (part_004 line 1494), scaled down here
MAX_HISTORY == 2
\* most pages a graph may hold (guards of addPage / duplicatePage)
MaxPages == 4
\* most user operations in one behaviour; also the reading of Date.now()
MaxSteps == 2
\* most conditions of one route
MaxConds == 1

(***************************************************************************)
(* Strings and numbers: (n).toString() and parseInt(s) on the decimal      *)
(* strings the model uses.  parseInt of a string without leading digits is *)
(* NaN, which is equal to nothing.                                         *)
(***************************************************************************)
Digits == <<"0", "1", "2", "3", "4", "5", "6", "7", "8", "9">>

NaN == -1

toString(n) == Digits[n + 1]

parseInt(s) ==
    IF \E n \in 0..9 : Digits[n + 1] = s
    THEN CHOOSE n \in 0..9 : Digits[n + 1] = s
    ELSE NaN

\* ownerPageKey ? pages[ownerPageKey]?.path : null
null == "<null>"

\* a property that the object does not have
undefined == "<undefined>"

\* a page without template_data: data is the set of the strings that
\* template_data holds as values, and this set stands for its absence
noData == {undefined}

\* theme.colors = {} and the like
emptyObject == "{}"

\* the key of the transient page of the template editor
previewPageId == "__template_preview__"

(***************************************************************************)
(* Sequence helpers for the insertion-ordered maps.                        *)
(***************************************************************************)
Keys(pages) == {pages[i].key : i \in DOMAIN pages}

\* Object.keys(pages).indexOf(key), 1-based; 0 when absent
IndexOf(pages, key) ==
    IF key \in Keys(pages)
    THEN CHOOSE i \in DOMAIN pages : pages[i].key = key
    ELSE 0

\* pages[key]
PageOf(pages, key) == pages[IndexOf(pages, key)]

\* a key that is a canonical array index ("0", "1", ...)
IsIndex(key) == \E n \in 0..9 : Digits[n + 1] = key

\* Object.fromEntries(entries), for entries of distinct keys.  An object lists
\* its own keys with the array indices first, in ascending order, and the
\* other keys after them in the order they were added; this holds for every
\* object built key by key.
fromEntries(entries) ==
    LET idx == {i \in DOMAIN entries : IsIndex(entries[i].key)}
        value(key) == CHOOSE n \in 0..9 : Digits[n + 1] = key
        rank(i) == Cardinality({j \in idx : value(entries[j].key) < value(entries[i].key)})
        first == [k \in 1..Cardinality(idx) |->
                     entries[CHOOSE i \in idx : rank(i) = k - 1]]
    IN  first \o SelectSeq(entries, LAMBDA p : ~IsIndex(p.key))

\* { ...pages, [key]: cfg }: an existing key keeps its place, a new one is
\* added last
SetPage(pages, key, cfg) ==
    LET p == [cfg EXCEPT !.key = key]
    IN  IF key \in Keys(pages)
        THEN [pages EXCEPT ![IndexOf(pages, key)] = p]
        ELSE fromEntries(Append(pages, p))

Names(routing) == {routing[i].name : i \in DOMAIN routing}

EntryIndex(routing, name) == CHOOSE i \in DOMAIN routing : routing[i].name = name

EntryOf(routing, name) == routing[EntryIndex(routing, name)]

Max(S) == IF S = {} THEN 0 ELSE CHOOSE m \in S : \A x \in S : x <= m

(***************************************************************************)
(* Path Reindexer                                                          *)
(***************************************************************************)
\* mutant: the pages are made anew, without their template_data
reindexPages_dropsData(pages) ==
    [i \in DOMAIN pages |-> [pages[i] EXCEPT !.path = toString(i), !.data = noData]]

\* mutant: paths counted from 0
reindexPages_fromZero(pages) ==
    [i \in DOMAIN pages |-> [pages[i] EXCEPT !.path = toString(i - 1)]]

reindexPages(pages) ==
    [i \in DOMAIN pages |-> [pages[i] EXCEPT !.path = toString(i)]]

(***************************************************************************)
(* Route Migrator                                                          *)
(***************************************************************************)
\* mutant: the first page that holds the event name owns it
buildEventOwnerMap_firstPage(pages, routing) ==
    LET refs(n) == {i \in DOMAIN pages : pages[i].data # noData /\ n \in pages[i].data}
    IN  [n \in {m \in Names(routing) : refs(m) # {}} |->
            pages[CHOOSE i \in refs(n) : \A j \in refs(n) : i <= j].key]

\* ownerMap[val] = pageKey, written page by page in collection order: the
\* last page whose template_data holds the event name as a value owns it
buildEventOwnerMap(pages, routing) ==
    LET refs(n) == {i \in DOMAIN pages : pages[i].data # noData /\ n \in pages[i].data}
    IN  [n \in {m \in Names(routing) : refs(m) # {}} |-> pages[Max(refs(n))].key]

\* old path -> new path for every page kept under the same key whose path
\* changed; a later page overwrites an earlier one with the same old path
buildPathMap(oldPages, newPages) ==
    LET moved(i) == /\ oldPages[i].key \in Keys(newPages)
                    /\ oldPages[i].path # PageOf(newPages, oldPages[i].key).path
        at(p) == {i \in DOMAIN oldPages : moved(i) /\ oldPages[i].path = p}
    IN  [p \in {oldPages[i].path : i \in {j \in DOMAIN oldPages : moved(j)}}
            |-> PageOf(newPages, oldPages[Max(at(p))].key).path]

\* pathMap[p] taken as a truth value: an entry exists (new paths are never "")
Mapped(pathMap, p) == p \in DOMAIN pathMap

\* JSON.parse(JSON.stringify(routing)): new entry and route objects, numbered
\* from base in collection order
JSONClone(routing, base) ==
    [i \in DOMAIN routing |->
        [routing[i] EXCEPT !.ref = base + 2 * i - 1,
                           !.rref = IF routing[i].hasRoute THEN base + 2 * i ELSE 0]]

\* oldPages[ownerPageKey]?.path, or null without an owner
OwnerPath(ownerMap, pages, name) ==
    IF name \in DOMAIN ownerMap /\ ownerMap[name] \in Keys(pages)
    THEN PageOf(pages, ownerMap[name]).path
    ELSE null

wasSequential(ownerOldPath, oldRouteTo) ==
    /\ ownerOldPath # null
    /\ parseInt(oldRouteTo) # NaN
    /\ parseInt(ownerOldPath) # NaN
    /\ parseInt(oldRouteTo) = parseInt(ownerOldPath) + 1

\* mutant: every route.to goes through pathMap, sequential or not
MigrateEntry_pathMapOnly(event, oldPages, newPages, pathMap, ownerMap) ==
    IF ~event.hasRoute \/ event.to = ""
    THEN event
    ELSE [event EXCEPT !.to = IF Mapped(pathMap, event.to) THEN pathMap[event.to] ELSE @]

\* mutant: a route.to without an owner is left as it is
MigrateEntry_ownedOnly(event, oldPages, newPages, pathMap, ownerMap) ==
    IF ~event.hasRoute \/ event.to = ""
    THEN event
    ELSE LET ownerOldPath == OwnerPath(ownerMap, oldPages, event.name)
             ownerNewPath == OwnerPath(ownerMap, newPages, event.name)
         IN  [event EXCEPT !.to =
                IF wasSequential(ownerOldPath, event.to) /\ ownerNewPath # null
                THEN toString(parseInt(ownerNewPath) + 1)
                ELSE IF ownerOldPath # null /\ Mapped(pathMap, event.to)
                     THEN pathMap[event.to]
                     ELSE @]

\* mutant: a condition whose target moves is written anew, target only
MigrateEntry_bareConds(event, oldPages, newPages, pathMap, ownerMap) ==
    IF ~event.hasRoute \/ event.to = ""
    THEN event
    ELSE LET ownerOldPath == OwnerPath(ownerMap, oldPages, event.name)
             ownerNewPath == OwnerPath(ownerMap, newPages, event.name)
             newTo == IF wasSequential(ownerOldPath, event.to) /\ ownerNewPath # null
                      THEN toString(parseInt(ownerNewPath) + 1)
                      ELSE IF Mapped(pathMap, event.to)
                           THEN pathMap[event.to]
                           ELSE event.to
             newConds == [c \in DOMAIN event.conditions |->
                            IF event.conditions[c].target # ""
                               /\ Mapped(pathMap, event.conditions[c].target)
                            THEN [field |-> "", operator |-> "eq", value |-> "",
                                  target |-> pathMap[event.conditions[c].target]]
                            ELSE event.conditions[c]]
         IN  [event EXCEPT !.to = newTo, !.conditions = newConds]

\* the body of the for-loop over newRouting, for one entry
MigrateEntry(event, oldPages, newPages, pathMap, ownerMap) ==
    IF ~event.hasRoute \/ event.to = ""
    THEN event
    ELSE LET ownerOldPath == OwnerPath(ownerMap, oldPages, event.name)
             ownerNewPath == OwnerPath(ownerMap, newPages, event.name)
             newTo == IF wasSequential(ownerOldPath, event.to) /\ ownerNewPath # null
                      THEN toString(parseInt(ownerNewPath) + 1)
                      ELSE IF Mapped(pathMap, event.to)
                           THEN pathMap[event.to]
                           ELSE event.to
             newConds == [c \in DOMAIN event.conditions |->
                            IF event.conditions[c].target # ""
                               /\ Mapped(pathMap, event.conditions[c].target)
                            THEN [event.conditions[c] EXCEPT
                                    !.target = pathMap[event.conditions[c].target]]
                            ELSE event.conditions[c]]
         IN  [event EXCEPT !.to = newTo, !.conditions = newConds]

reindexEventRouting(oldPages, newPages, routing, base) ==
    LET pathMap == buildPathMap(oldPages, newPages)
        eventOwnerMap == buildEventOwnerMap(oldPages, routing)
        newRouting == JSONClone(routing, base)
        isSeq(e) == /\ e.hasRoute /\ e.to # ""
                    /\ wasSequential(OwnerPath(eventOwnerMap, oldPages, e.name), e.to)
                    /\ OwnerPath(eventOwnerMap, newPages, e.name) # null
        isCustom(e) == /\ e.hasRoute /\ e.to # "" /\ ~isSeq(e)
                       /\ Mapped(pathMap, e.to)
    IN  IF DOMAIN pathMap = {} /\ Len(routing) = 0
        THEN [routing |-> routing, sequentialCount |-> 0, customCount |-> 0]
        ELSE [routing |-> [i \in DOMAIN newRouting |->
                             MigrateEntry(newRouting[i], oldPages, newPages,
                                          pathMap, eventOwnerMap)],
              sequentialCount |->
                  Cardinality({i \in DOMAIN routing : isSeq(routing[i])}),
              customCount |->
                  Cardinality({i \in DOMAIN routing : isCustom(routing[i])})]

(***************************************************************************)
(* Object identities held by the store.  A new object takes the first      *)
(* number above every one still held by config, past or future.            *)
(***************************************************************************)
RefsOf(cfg) ==
    UNION {{cfg.event_routing[i].ref, cfg.event_routing[i].rref} :
              i \in DOMAIN cfg.event_routing}

UsedRefs(c, p, f) ==
    RefsOf(c) \cup UNION {RefsOf(p[i]) : i \in DOMAIN p}
              \cup UNION {RefsOf(f[i]) : i \in DOMAIN f}

NextRef == Max(UsedRefs(config, past, future))

(***************************************************************************)
(* Mutation History                                                        *)
(***************************************************************************)
\* mutant: past is not cut to MAX_HISTORY
pushPast_uncapped(h, prevConfig) == Append(h, prevConfig)

\* [...h.past, prevConfig].slice(-MAX_HISTORY)
pushPast(h, prevConfig) ==
    LET all == Append(h, prevConfig)
    IN  IF Len(all) <= MAX_HISTORY
        THEN all
        ELSE SubSeq(all, Len(all) - MAX_HISTORY + 1, Len(all))

\* mutant: the snapshot pushed is the new config
commit_pushNext(heldPast, prevConfig, nextConfig) ==
    /\ config' = nextConfig
    /\ past' = pushPast(heldPast, nextConfig)
    /\ future' = <<>>

\* mutant: future is kept
commit_keepFuture(heldPast, prevConfig, nextConfig) ==
    /\ config' = nextConfig
    /\ past' = pushPast(heldPast, prevConfig)
    /\ future' = future

\* setConfigState(prev => next) with the nested setHistory; heldPast and
\* prevConfig are the history and the previous config as their objects stand
\* when the updater runs
commit(heldPast, prevConfig, nextConfig) ==
    /\ config' = nextConfig
    /\ past' = pushPast(heldPast, prevConfig)
    /\ future' = <<>>

setConfig(nextConfig) == commit(past, config, nextConfig)

\* mutant: the undone config goes to the far end of future
undo_appendFuture ==
    IF Len(past) = 0
    THEN UNCHANGED <<config, past, future>>
    ELSE /\ config' = past[Len(past)]
         /\ past' = SubSeq(past, 1, Len(past) - 1)
         /\ future' = Append(future, config)

undo ==
    IF Len(past) = 0
    THEN UNCHANGED <<config, past, future>>
    ELSE /\ config' = past[Len(past)]
         /\ past' = SubSeq(past, 1, Len(past) - 1)
         /\ future' = <<config>> \o future

\* mutant: a redo with nothing to redo still pushes the config onto past
redo_pushOnEmpty ==
    IF Len(future) = 0
    THEN /\ past' = Append(past, config)
         /\ UNCHANGED <<config, future>>
    ELSE /\ config' = future[1]
         /\ past' = Append(past, config)
         /\ future' = SubSeq(future, 2, Len(future))

redo ==
    IF Len(future) = 0
    THEN UNCHANGED <<config, past, future>>
    ELSE /\ config' = future[1]
         /\ past' = Append(past, config)
         /\ future' = SubSeq(future, 2, Len(future))

(***************************************************************************)
(* Structural edits: the next config each of them hands to setConfig.      *)
(***************************************************************************)
addPageConfig(prev, pageId, newConfig, base) ==
    LET updatedPages == SetPage(prev.pages, pageId, newConfig)
        reindexed == reindexPages(updatedPages)
        r == reindexEventRouting(prev.pages, reindexed, prev.event_routing, base)
    IN  [prev EXCEPT !.pages = reindexed, !.event_routing = r.routing]

\* `${pageId}-copy-${Date.now()}`
CopyId(pageId, t) == pageId \o "-copy-" \o ToString(t)

\* JSON.parse(JSON.stringify(pageToClone)) with name + " (Copy)"
ClonePage(pageToClone, newId) ==
    [pageToClone EXCEPT !.key = newId, !.name = pageToClone.name \o " (Copy)"]

duplicatePageConfig(prev, pageId, newId, base) ==
    LET index == IndexOf(prev.pages, pageId)
        newEntries == SubSeq(prev.pages, 1, index)
                        \o <<ClonePage(PageOf(prev.pages, pageId), newId)>>
                        \o SubSeq(prev.pages, index + 1, Len(prev.pages))
        newPagesRaw == fromEntries(newEntries)
        reindexed == reindexPages(newPagesRaw)
        r == reindexEventRouting(prev.pages, reindexed, prev.event_routing, base)
    IN  [prev EXCEPT !.pages = reindexed, !.event_routing = r.routing]

\* newOrder.forEach(key => { if (prev.pages[key]) newPagesRaw[key] = prev.pages[key] })
RECURSIVE PickPages(_, _, _)
PickPages(pages, newOrder, acc) ==
    IF newOrder = <<>>
    THEN acc
    ELSE LET key == Head(newOrder)
         IN  PickPages(pages, Tail(newOrder),
                       IF key \in Keys(pages)
                       THEN SetPage(acc, key, PageOf(pages, key))
                       ELSE acc)

reorderPagesConfig(prev, newOrder, base) ==
    LET newPagesRaw == PickPages(prev.pages, newOrder, <<>>)
        reindexed == reindexPages(newPagesRaw)
        r == reindexEventRouting(prev.pages, reindexed, prev.event_routing, base)
    IN  [prev EXCEPT !.pages = reindexed, !.event_routing = r.routing]

\* Object.entries(prev.pages).filter(([key]) => key !== pageId)
RECURSIVE FilterOut(_, _)
FilterOut(pages, pageId) ==
    IF pages = <<>>
    THEN <<>>
    ELSE IF Head(pages).key = pageId
         THEN FilterOut(Tail(pages), pageId)
         ELSE <<Head(pages)>> \o FilterOut(Tail(pages), pageId)

deletePageConfig(prev, pageId, base) ==
    LET remainingPagesObj == fromEntries(FilterOut(prev.pages, pageId))
        reindexed == reindexPages(remainingPagesObj)
        r == reindexEventRouting(prev.pages, reindexed, prev.event_routing, base)
    IN  [prev EXCEPT !.pages = reindexed, !.event_routing = r.routing]

\* the page made active by deletePage
nextIdToActivate(pages, active, pageId) ==
    LET currentIndex == IndexOf(pages, pageId)
    IN  IF active # pageId
        THEN active
        ELSE IF currentIndex > 1
             THEN pages[currentIndex - 1].key
             ELSE pages[currentIndex + 1].key

(***************************************************************************)
(* Graphs the store starts from: built-in default or imported document.    *)
(***************************************************************************)
Events == {"e1"}

PageIds == <<"p1", "p2", "p3", "p4", "p5">>

Page(k, nm, pth, tpl, d) ==
    [key |-> k, name |-> nm, path |-> pth, template |-> tpl, data |-> d]

Entry(nm, r, rr, t, conds) ==
    [name |-> nm, ref |-> r, hasRoute |-> TRUE, rref |-> rr, to |-> t,
     conditions |-> conds, quiz_answer |-> ""]

Condition(f, t) == [field |-> f, operator |-> "eq", value |-> "", target |-> t]

\* layout: the names of the templates of the header and of the footer, and
\* their template_data taken as one value
Layout(headerTemplate, footerTemplate, data) ==
    [header |-> headerTemplate, footer |-> footerTemplate, data |-> data]

ThemeSections == {"colors", "fonts", "spacing", "border_radius", "width", "border"}

Theme(colors) == [s \in ThemeSections |-> IF s = "colors" THEN colors ELSE "set"]

\* undef: the optional sections the object does not have (their fields then
\* hold a placeholder that no operation may read)
Graph(pgs, routing) ==
    [pages |-> pgs, event_routing |-> routing,
     templates |-> {"tA", "tB", "header", "footer"},
     theme |-> Theme("light"), layout |-> Layout("header", "footer", "logo"),
     split_test |-> "none",
     undef |-> {}]

\* every graph of n pages with paths "1".."n", one routing entry e1 that any
\* of the pages may reference, routed anywhere, with at most one condition
Graphs(n) ==
    {Graph([i \in 1..n |-> Page(PageIds[i], "P", toString(i), "tA", d[i])],
           <<Entry("e1", 1, 2, t, c)>>) :
        d \in [1..n -> SUBSET Events],
        t \in {""} \cup {toString(i) : i \in 1..(n + 1)},
        c \in {<<>>} \cup {<<Condition("f", toString(i))>> : i \in 1..n}}

(***************************************************************************)
(* Operations of the store as steps.  Each one advances the clock and      *)
(* records its name and the config it started from.  An operation whose    *)
(* updater throws is recorded as "TypeError": nothing catches it, and the   *)
(* store takes no further operation.                                       *)
(***************************************************************************)
Step(name, limit) ==
    /\ lastOp # "TypeError"
    /\ now < limit
    /\ now' = now + 1
    /\ lastOp' = name
    /\ pre' = config

\* Sidebar.handleAddPage makes a new id; the AI panel passes any id
NewPageId(t) == "new-page-" \o ToString(t)

\* Object.keys(routing) in reindexEventRouting and in buildEventOwnerMap,
\* called with prev.event_routing: a TypeError when the config has no
\* event_routing
Throws(prev) == "event_routing" \in prev.undef

Outcome(name, threw) == IF threw THEN "TypeError" ELSE name

addPage(pageId, newConfig) ==
    IF Throws(config)
    THEN UNCHANGED <<config, past, future, activePageId>>
    ELSE /\ pageId \in Keys(config.pages) \/ Len(config.pages) < MaxPages
         /\ setConfig(addPageConfig(config, pageId, newConfig, NextRef))
         /\ activePageId' = pageId

duplicatePage(pageId) ==
    IF pageId \notin Keys(config.pages) \/ Throws(config)
    THEN UNCHANGED <<config, past, future, activePageId>>
    ELSE /\ Len(config.pages) < MaxPages
         /\ setConfig(duplicatePageConfig(config, pageId, CopyId(pageId, now), NextRef))
         /\ activePageId' = CopyId(pageId, now)

reorderPages(newOrder) ==
    IF Throws(config)
    THEN UNCHANGED <<config, past, future, activePageId>>
    ELSE /\ setConfig(reorderPagesConfig(config, newOrder, NextRef))
         /\ UNCHANGED activePageId

\* mutant: an id that is not a page is let through
deletePageRejects_lastOnly(pageId) ==
    Len(config.pages) <= 1

\* the two early returns of deletePage
deletePageRejects(pageId) ==
    pageId \notin Keys(config.pages) \/ Len(config.pages) <= 1

deletePage(pageId) ==
    IF deletePageRejects(pageId) \/ Throws(config)
    THEN UNCHANGED <<config, past, future, activePageId>>
    ELSE /\ setConfig(deletePageConfig(config, pageId, NextRef))
         /\ activePageId' = nextIdToActivate(config.pages, activePageId, pageId)

\* Sidebar.handleDragOver: the dragged key taken out and put at the target's index
DragOrder(pages, fromIndex, toIndex) ==
    LET keys == [i \in DOMAIN pages |-> pages[i].key]
        without == SubSeq(keys, 1, fromIndex - 1) \o SubSeq(keys, fromIndex + 1, Len(keys))
    IN  SubSeq(without, 1, toIndex - 1) \o <<keys[fromIndex]>>
            \o SubSeq(without, toIndex, Len(without))

AddPage(limit, ids, datas) ==
    /\ Step(Outcome("addPage", Throws(config)), limit)
    /\ \E pageId \in ids, d \in datas :
          addPage(pageId, Page(pageId, "New Page", toString(Len(config.pages) + 1), "tB", d))

DuplicatePage(limit, ids) ==
    \E pageId \in ids :
        /\ Step(Outcome("duplicatePage",
                        pageId \in Keys(config.pages) /\ Throws(config)), limit)
        /\ duplicatePage(pageId)

ReorderPages(limit, froms) ==
    /\ Step(Outcome("reorderPages", Throws(config)), limit)
    /\ \E fromIndex \in froms, toIndex \in DOMAIN config.pages :
          /\ fromIndex # toIndex
          /\ reorderPages(DragOrder(config.pages, fromIndex, toIndex))

DeletePage(limit, ids) ==
    \E pageId \in ids :
        /\ Step(Outcome("deletePage",
                        ~deletePageRejects(pageId) /\ Throws(config)), limit)
        /\ deletePage(pageId)

Undo(limit) ==
    /\ Step("undo", limit)
    /\ undo
    /\ UNCHANGED activePageId

Redo(limit) ==
    /\ Step("redo", limit)
    /\ redo
    /\ UNCHANGED activePageId

NoProbe == [phase |-> "edit", k |-> 0, u |-> 0, r |-> 0, saved |-> <<>>, cleared |-> 0]

InitStore(graphs) ==
    /\ config \in graphs
    /\ past = <<>>
    /\ future = <<>>
    /\ activePageId = config.pages[1].key
    /\ now = 0
    /\ lastOp = "init"
    /\ pre = config
    /\ probe = NoProbe
    /\ issues = <<>>
    /\ exported = <<>>
    /\ view = <<>>

(***************************************************************************)
(* Spec: the structural edits with undo and redo, from every small graph.  *)
(***************************************************************************)
Init == InitStore(Graphs(2) \cup Graphs(3))

Next ==
    \/ AddPage(MaxSteps, {NewPageId(now)} \cup Keys(config.pages), SUBSET Events)
          /\ UNCHANGED <<probe, outputs>>
    \/ DuplicatePage(MaxSteps, Keys(config.pages)) /\ UNCHANGED <<probe, outputs>>
    \/ ReorderPages(MaxSteps, DOMAIN config.pages) /\ UNCHANGED <<probe, outputs>>
    \/ DeletePage(MaxSteps, Keys(config.pages)) /\ UNCHANGED <<probe, outputs>>
    \/ Undo(MaxSteps) /\ UNCHANGED <<probe, outputs>>
    \/ Redo(MaxSteps) /\ UNCHANGED <<probe, outputs>>

Spec == Init /\ [][Next]_vars

(***************************************************************************)
(* The other operations that go through setConfig.                         *)
(***************************************************************************)
updatePage(pageId, newConfig) ==
    setConfig([config EXCEPT !.pages = SetPage(@, pageId, newConfig)])

updateTheme(newTheme) == setConfig([config EXCEPT !.theme = newTheme])

updateLayout(newLayout) == setConfig([config EXCEPT !.layout = newLayout])

updateSplitTest(newSplitTest) == setConfig([config EXCEPT !.split_test = newSplitTest])

\* updateEvents({ event_routing: newRouting }); heldPast and heldConfig are
\* past and config as their objects stand when the updater runs
updateEvents(heldPast, heldConfig, newRouting) ==
    commit(heldPast, heldConfig, [heldConfig EXCEPT !.event_routing = newRouting])

\* mutant: the reserved layout templates are not refused
deleteTemplate_reservedToo(templateId) ==
    IF \E i \in DOMAIN config.pages : config.pages[i].template = templateId
    THEN UNCHANGED <<config, past, future>>
    ELSE setConfig([config EXCEPT !.templates = @ \ {templateId}])

deleteTemplate(templateId) ==
    IF \/ \E i \in DOMAIN config.pages : config.pages[i].template = templateId
       \/ templateId = "header"
       \/ templateId = "footer"
    THEN UNCHANGED <<config, past, future>>
    ELSE setConfig([config EXCEPT !.templates = @ \ {templateId}])

(***************************************************************************)
(* Events editor.  A handler that writes through a reference it took from  *)
(* config.event_routing changes the one object, and with it every held     *)
(* config that points at that object.                                      *)
(***************************************************************************)
\* { ...eventRouting, [key]: entry }
SetEntry(routing, entry) ==
    IF entry.name \in Names(routing)
    THEN [routing EXCEPT ![EntryIndex(routing, entry.name)] = entry]
    ELSE Append(routing, entry)

RouteValue(t, conds) == [to |-> t, conditions |-> conds, text |-> ""]

TextValue(txt) == [to |-> "", conditions |-> <<>>, text |-> txt]

\* newRouting[key][field] = value, for the fields 'route' and 'quiz_answer'
PutField(e, field, value, newRef) ==
    IF field = "route"
    THEN [e EXCEPT !.hasRoute = TRUE, !.rref = newRef,
                   !.to = value.to, !.conditions = value.conditions]
    ELSE [e EXCEPT !.quiz_answer = value.text]

EmptyEntry(nm, r) ==
    [name |-> nm, ref |-> r, hasRoute |-> FALSE, rref |-> 0, to |-> "",
     conditions |-> <<>>, quiz_answer |-> ""]

\* a write through a held reference: w.byRoute tells whether the reference is
\* to a route object (logic.route.conditions = ...) or to an entry object
\* (newRouting[key][field] = value)
Hit(w, e) ==
    IF w.byRoute THEN e.hasRoute /\ e.rref = w.target ELSE e.ref = w.target

Put(w, e) ==
    IF w.byRoute
    THEN [e EXCEPT !.conditions = w.value.conditions]
    ELSE PutField(e, w.field, w.value, w.newRef)

WriteRouting(routing, w) ==
    [i \in DOMAIN routing |-> IF Hit(w, routing[i]) THEN Put(w, routing[i]) ELSE routing[i]]

WriteConfig(cfg, w) ==
    [cfg EXCEPT !.event_routing = WriteRouting(@, w)]

WriteHeld(h, w) ==
    [i \in DOMAIN h |-> WriteConfig(h[i], w)]

\* newRouting = { ...eventRouting } copies the map, not the entries: the write
\* lands in the entry object that config and the snapshots hold
handleRoutingChange(key, field, value) ==
    IF key \in Names(config.event_routing)
    THEN LET w == [byRoute |-> FALSE, field |-> field, value |-> value,
                       target |-> EntryOf(config.event_routing, key).ref,
                       newRef |-> NextRef + 1]
         IN  updateEvents(WriteHeld(past, w), WriteConfig(config, w),
                          WriteRouting(config.event_routing, w))
    ELSE updateEvents(past, config,
                      Append(config.event_routing,
                             PutField(EmptyEntry(key, NextRef + 1), field, value,
                                      NextRef + 2)))

NewCondition == [field |-> "", operator |-> "eq", value |-> "", target |-> ""]

\* logic = { ...entry } is a new entry object, logic.route is still the route
\* object of the old entry: the conditions are written into it
addCondition(eventName) ==
    LET entry == EntryOf(config.event_routing, eventName)
    IN  IF ~entry.hasRoute
        THEN updateEvents(past, config,
                 SetEntry(config.event_routing,
                          [entry EXCEPT !.ref = NextRef + 1, !.hasRoute = TRUE,
                                        !.rref = NextRef + 2, !.to = "",
                                        !.conditions = <<NewCondition>>]))
        ELSE LET w == [byRoute |-> TRUE, field |-> "route", target |-> entry.rref,
                           value |-> RouteValue(entry.to,
                                                Append(entry.conditions, NewCondition)),
                           newRef |-> entry.rref]
                 held == WriteConfig(config, w)
             IN  updateEvents(WriteHeld(past, w), held,
                     SetEntry(held.event_routing,
                              [Put(w, entry) EXCEPT !.ref = NextRef + 1]))

\* new entry, new conditions array, new route object
updateCondition(eventName, index, target) ==
    LET entry == EntryOf(config.event_routing, eventName)
    IN  updateEvents(past, config,
            SetEntry(config.event_routing,
                     [entry EXCEPT !.ref = NextRef + 1, !.hasRoute = TRUE,
                                   !.rref = NextRef + 2,
                                   !.conditions[index].target = target]))

\* the "Route to" select of the page editor: new entry and new route object
selectRouteTo(eventName, value) ==
    LET entry == IF eventName \in Names(config.event_routing)
                 THEN EntryOf(config.event_routing, eventName)
                 ELSE EmptyEntry(eventName, 0)
    IN  updateEvents(past, config,
            SetEntry(config.event_routing,
                     [entry EXCEPT !.ref = NextRef + 1, !.hasRoute = TRUE,
                                   !.rref = NextRef + 2, !.to = value]))

\* the paths offered by the route selects, and "-- No Route --"
availablePaths == {""} \cup {config.pages[i].path : i \in
                     {j \in DOMAIN config.pages : config.pages[j].key # "__template_preview__"}}

(***************************************************************************)
(* SpecStore: every operation that goes through setConfig, with undo and   *)
(* redo, from one graph; the editors act on the active page and the first  *)
(* routing entry.  A behaviour may end with a run of undos followed by as  *)
(* many redos, counted in probe: k mutations since the last undo or redo,  *)
(* u undos and r redos done, saved the store before the first undo.        *)
(***************************************************************************)
Toggle(v, a, b) == IF v = a THEN b ELSE a

UpdatePage(limit) ==
    /\ Step("updatePage", limit)
    /\ activePageId \in Keys(config.pages)
    /\ LET activePage == PageOf(config.pages, activePageId)
           template_data == IF activePage.data = noData THEN {} ELSE activePage.data
       IN  \E e \in Events :
              updatePage(activePageId,
                         [activePage EXCEPT !.data =
                             IF e \in template_data
                             THEN template_data \ {e}
                             ELSE template_data \cup {e}])
    /\ UNCHANGED activePageId

UpdateTheme(limit) ==
    /\ Step("updateTheme", limit)
    /\ updateTheme([config.theme EXCEPT !["colors"] = Toggle(@, "light", "dark")])
    /\ UNCHANGED activePageId

UpdateLayout(limit) ==
    /\ Step("updateLayout", limit)
    /\ updateLayout([config.layout EXCEPT !.data = Toggle(@, "logo", "logo2")])
    /\ UNCHANGED activePageId

UpdateSplitTest(limit) ==
    /\ Step("updateSplitTest", limit)
    /\ updateSplitTest(Toggle(config.split_test, "none", "exp1"))
    /\ UNCHANGED activePageId

DeleteTemplate(limit, ids) ==
    /\ Step("deleteTemplate", limit)
    /\ \E templateId \in ids : deleteTemplate(templateId)
    /\ UNCHANGED activePageId

HandleRoutingChange(limit) ==
    /\ Step("handleRoutingChange", limit)
    /\ \E key \in Names(config.event_routing) :
          LET logic == EntryOf(config.event_routing, key)
          IN  \/ \E v \in availablePaths :
                    /\ v # logic.to
                    /\ handleRoutingChange(key, "route", RouteValue(v, logic.conditions))
              \/ handleRoutingChange(key, "quiz_answer",
                                     TextValue(Toggle(logic.quiz_answer, "", "goal")))
    /\ UNCHANGED activePageId

AddCondition(limit) ==
    /\ Step("addCondition", limit)
    /\ \E eventName \in Names(config.event_routing) :
          /\ Len(EntryOf(config.event_routing, eventName).conditions) < MaxConds
          /\ addCondition(eventName)
    /\ UNCHANGED activePageId

UpdateCondition(limit) ==
    /\ Step("updateCondition", limit)
    /\ \E eventName \in Names(config.event_routing) :
          \E index \in DOMAIN EntryOf(config.event_routing, eventName).conditions,
             target \in availablePaths :
                /\ target # EntryOf(config.event_routing, eventName).conditions[index].target
                /\ updateCondition(eventName, index, target)
    /\ UNCHANGED activePageId

SelectRouteTo(limit) ==
    /\ Step("selectRouteTo", limit)
    /\ \E eventName \in Names(config.event_routing), v \in availablePaths :
          /\ v # EntryOf(config.event_routing, eventName).to
          /\ selectRouteTo(eventName, v)
    /\ UNCHANGED activePageId

\* most operations of SpecStore before the closing undos and redos
MaxStoreSteps == 4

Editing == probe.phase = "edit"

\* a call of setConfig adds one to the run of mutations; cleared is the
\* length future had when the operation began
Counted ==
    /\ probe' = [probe EXCEPT !.k = IF past' # past \/ config' # config
                                    THEN @ + 1 ELSE @,
                              !.cleared = Len(future)]
    /\ UNCHANGED outputs

Uncounted ==
    /\ probe' = [probe EXCEPT !.k = 0, !.cleared = Len(future)]
    /\ UNCHANGED outputs

ProbeUndo ==
    /\ \/ probe.phase = "edit" /\ probe.k >= 1 /\ probe.k <= MAX_HISTORY
       \/ probe.phase = "undo" /\ probe.u < probe.k
    /\ undo
    /\ lastOp' = "undo"
    /\ pre' = config
    /\ probe' = [probe EXCEPT !.phase = "undo", !.u = @ + 1,
                              !.saved = IF probe.phase = "edit"
                                        THEN <<config, past, future>> ELSE @]
    /\ UNCHANGED <<now, activePageId, outputs>>

ProbeRedo ==
    /\ \/ probe.phase = "undo" /\ probe.u = probe.k
       \/ probe.phase = "redo" /\ probe.r < probe.k
    /\ redo
    /\ lastOp' = "redo"
    /\ pre' = config
    /\ probe' = [probe EXCEPT !.phase = IF probe.r + 1 = probe.k THEN "done" ELSE "redo",
                              !.r = @ + 1]
    /\ UNCHANGED <<now, activePageId, outputs>>

StoreGraphs ==
    {Graph(<<Page("p1", "P", "1", "tA", {"e1"}), Page("p2", "P", "2", "tA", {})>>,
           <<Entry("e1", 1, 2, "2", <<>>)>>)}

InitStoreSpec == InitStore(StoreGraphs)

NextStore ==
    \/ Editing /\ AddPage(MaxStoreSteps, {NewPageId(now)}, {{}}) /\ Counted
    \/ Editing /\ DuplicatePage(MaxStoreSteps, {activePageId}) /\ Counted
    \/ Editing /\ ReorderPages(MaxStoreSteps, {1}) /\ Counted
    \/ Editing /\ DeletePage(MaxStoreSteps, {activePageId}) /\ Counted
    \/ Editing /\ UpdatePage(MaxStoreSteps) /\ Counted
    \/ Editing /\ UpdateTheme(MaxStoreSteps) /\ Counted
    \/ Editing /\ UpdateLayout(MaxStoreSteps) /\ Counted
    \/ Editing /\ UpdateSplitTest(MaxStoreSteps) /\ Counted
    \/ Editing /\ DeleteTemplate(MaxStoreSteps, {"tB"}) /\ Counted
    \/ Editing /\ HandleRoutingChange(MaxStoreSteps) /\ Counted
    \/ Editing /\ AddCondition(MaxStoreSteps) /\ Counted
    \/ Editing /\ UpdateCondition(MaxStoreSteps) /\ Counted
    \/ Editing /\ SelectRouteTo(MaxStoreSteps) /\ Counted
    \/ Editing /\ Undo(MaxStoreSteps) /\ Uncounted
    \/ Editing /\ Redo(MaxStoreSteps) /\ Uncounted
    \/ ProbeUndo
    \/ ProbeRedo

SpecStore == InitStoreSpec /\ [][NextStore]_vars

(***************************************************************************)
(* Validator, step 3: the names of the entries whose route.to is no page's *)
(* path (each is reported as one error).                                   *)
(***************************************************************************)
validPaths(cfg) == {cfg.pages[i].path : i \in DOMAIN cfg.pages}

danglingRoutes(cfg) ==
    {cfg.event_routing[i].name : i \in
        {j \in DOMAIN cfg.event_routing :
            /\ cfg.event_routing[j].hasRoute
            /\ cfg.event_routing[j].to # ""
            /\ cfg.event_routing[j].to \notin validPaths(cfg)}}

(***************************************************************************)
(* Validator, whole: the list validateConfig returns.  An issue carries    *)
(* the template of its message (kind), what the message names (subject: a  *)
(* page id or an event name) and the value it quotes (detail).  Check 5    *)
(* (pages without title or HTML content, a warning) reads texts of         *)
(* template_data that the pages of the model do not carry, and is left out.*)
(***************************************************************************)
Issue(type, field, kind, subject, detail) ==
    [type |-> type, field |-> field, kind |-> kind, subject |-> subject,
     detail |-> detail]

RECURSIVE Concat(_)
Concat(seqs) == IF seqs = <<>> THEN <<>> ELSE Head(seqs) \o Concat(Tail(seqs))

RECURSIVE SeqOf(_)
SeqOf(S) == IF S = {} THEN <<>>
            ELSE LET x == CHOOSE y \in S : TRUE IN <<x>> \o SeqOf(S \ {x})

\* 1. page paths are sequential
checkPath(page) ==
    IF page.path = ""
    THEN <<Issue("error", "path", "Missing path", page.key, "")>>
    ELSE IF parseInt(page.path) = NaN
         THEN <<Issue("error", "path", "Non-numeric path", page.key, page.path)>>
         ELSE <<>>

checkPathSequence(pages) ==
    LET numeric == {i \in DOMAIN pages :
                       pages[i].path # "" /\ parseInt(pages[i].path) # NaN}
    IN  IF {parseInt(pages[i].path) : i \in numeric} # 1..Cardinality(numeric)
        THEN <<Issue("error", "paths", "Path sequence broken", "", "")>>
        ELSE <<>>

\* 2. page templates exist
checkTemplate(page, templates) ==
    (IF page.template = ""
     THEN <<Issue("error", "template", "Missing template", page.key, "")>>
     ELSE IF page.template \notin templates
          THEN <<Issue("error", "template", "Template not found", page.key,
                       page.template)>>
          ELSE <<>>)
    \o (IF page.name = ""
        THEN <<Issue("warning", "name", "Missing page name", page.key, "")>>
        ELSE <<>>)

\* 3. route.to and condition targets exist
checkCondition(eventName, cond, paths) ==
    (IF cond.target # "" /\ cond.target \notin paths
     THEN <<Issue("error", "event_routing", "condition routes to non-existent path",
                  eventName, cond.target)>>
     ELSE <<>>)
    \o (IF cond.field = ""
        THEN <<Issue("warning", "event_routing", "condition has no field",
                     eventName, "")>>
        ELSE <<>>)

\* mutant: every non-empty route.to is reported
checkRoute_always(event, paths) ==
    (IF event.hasRoute /\ event.to # ""
     THEN <<Issue("error", "event_routing", "routes to non-existent path",
                  event.name, event.to)>>
     ELSE <<>>)
    \o Concat([c \in DOMAIN event.conditions |->
                  checkCondition(event.name, event.conditions[c], paths)])

checkRoute(event, paths) ==
    (IF event.hasRoute /\ event.to # "" /\ event.to \notin paths
     THEN <<Issue("error", "event_routing", "routes to non-existent path",
                  event.name, event.to)>>
     ELSE <<>>)
    \o Concat([c \in DOMAIN event.conditions |->
                  checkCondition(event.name, event.conditions[c], paths)])

\* 4. event references of template_data exist in the routing
checkReferences(page, routing) ==
    LET td == IF page.data = noData THEN {} ELSE page.data
    IN  SeqOf({Issue("warning", "template_data", "References event not found",
                     page.key, value) : value \in td \ Names(routing)})

\* 6. theme tokens
checkTheme(theme) ==
    (IF theme["colors"] = emptyObject
     THEN <<Issue("warning", "theme.colors.primary", "Missing primary color", "", ""),
            Issue("warning", "theme.colors.background", "Missing background color", "", "")>>
     ELSE <<>>)
    \o (IF theme["fonts"] = emptyObject
        THEN <<Issue("warning", "theme.fonts", "No fonts defined", "", "")>>
        ELSE <<>>)

validateConfig(cfg) ==
    LET pages == cfg.pages
        routing == IF "event_routing" \in cfg.undef THEN <<>> ELSE cfg.event_routing
    IN  Concat([i \in DOMAIN pages |-> checkPath(pages[i])])
        \o checkPathSequence(pages)
        \o Concat([i \in DOMAIN pages |-> checkTemplate(pages[i], cfg.templates)])
        \o Concat([j \in DOMAIN routing |-> checkRoute(routing[j], validPaths(cfg))])
        \o Concat([i \in DOMAIN pages |-> checkReferences(pages[i], routing)])
        \o checkTheme(cfg.theme)
        \o (IF previewPageId \in Keys(pages)
            THEN <<Issue("warning", "pages", "Stale template preview page", "", "")>>
            ELSE <<>>)

\* Sidebar.handleValidate
Validate(limit) ==
    /\ Step("validateConfig", limit)
    /\ issues' = validateConfig(config)
    /\ UNCHANGED <<config, past, future, activePageId>>

(***************************************************************************)
(* Template editor: the transient preview page.                            *)
(***************************************************************************)
\* TemplateEditor.updatePreviewPage: shows the first page that uses the
\* selected template, or writes the preview page with path "0" (its dummy
\* data are sample texts, none of them an event name)
updatePreviewPage(selectedTemplateKey) ==
    LET matching == {i \in DOMAIN config.pages :
                        config.pages[i].template = selectedTemplateKey}
    IN  IF matching # {}
        THEN /\ activePageId' = config.pages[CHOOSE i \in matching :
                                                \A j \in matching : i <= j].key
             /\ UNCHANGED <<config, past, future>>
        ELSE /\ updatePage(previewPageId,
                           Page(previewPageId, "Template Preview", "0",
                                selectedTemplateKey, {}))
             /\ activePageId' = previewPageId

UpdatePreviewPage(limit, keys) ==
    /\ Step("updatePreviewPage", limit)
    /\ \E selectedTemplateKey \in keys \cap config.templates :
          updatePreviewPage(selectedTemplateKey)

(***************************************************************************)
(* Import.  A document is the text of a file: malformed, or JSON whose      *)
(* sections may be absent (undef) or hold something that is not an object  *)
(* (scalar).                                                               *)
(***************************************************************************)
\* { header: { template: 'header', template_data: {} }, footer: { ... } }
DefaultLayout == Layout("header", "footer", emptyObject)

\* mutant: only theme.colors is filled in
Backfill_colorsOnly(theme) ==
    [s \in ThemeSections |-> IF theme[s] = undefined /\ s = "colors" THEN emptyObject ELSE theme[s]]

Backfill(theme) == [s \in ThemeSections |-> IF theme[s] = undefined THEN emptyObject ELSE theme[s]]

loadConfigRejects(doc) ==
    \/ doc.malformed
    \/ \E s \in {"pages", "theme", "templates"} : s \in doc.json.undef \cup doc.scalar

loadConfig(doc) ==
    IF loadConfigRejects(doc)
    THEN UNCHANGED <<config, past, future, activePageId>>
    ELSE /\ config' = [doc.json EXCEPT
                          !.theme = Backfill(@),
                          !.layout = IF "layout" \in doc.json.undef THEN DefaultLayout ELSE @,
                          !.undef = @ \ {"layout"}]
         /\ past' = <<>>
         /\ future' = <<>>
         /\ activePageId' = IF Len(doc.json.pages) > 0
                            THEN doc.json.pages[1].key
                            ELSE activePageId

LoadConfig(limit, docs) ==
    /\ Step("loadConfig", limit)
    /\ \E doc \in docs : loadConfig(doc)

(***************************************************************************)
(* Export.                                                                 *)
(***************************************************************************)
\* the deep copy without the preview page, its pages numbered again, and
\* the errors of the live config other than those of field 'pages'
prepareConfigForExport(cfg) ==
    LET compiled == [cfg EXCEPT !.pages = reindexPages(FilterOut(@, previewPageId))]
        errors == validateConfig(cfg)
        criticalErrors == SelectSeq(errors,
                              LAMBDA e : e.type = "error" /\ e.field # "pages")
    IN  [config |-> compiled, errors |-> criticalErrors]

\* downloadConfig: with errors the user is asked whether to go on
DownloadConfig(limit) ==
    /\ Step("downloadConfig", limit)
    /\ LET r == prepareConfigForExport(config)
       IN  \E proceed \in BOOLEAN :
              exported' = IF Len(r.errors) > 0 /\ ~proceed
                          THEN <<>>
                          ELSE <<r.config>>
    /\ UNCHANGED <<config, past, future, activePageId>>

(***************************************************************************)
(* SpecDoc: import, export, validation, the preview page and the guarded   *)
(* operations, with the structural edits, from one graph.                  *)
(***************************************************************************)
\* most operations in one behaviour of SpecDoc
MaxDocSteps == 3

DocPages ==
    {<<>>,
     <<Page("d1", "Doc", "1", "tA", noData)>>,
     <<Page("d1", "Doc", "1", "tA", noData), Page("d2", "Doc", "2", "tA", {"e1"})>>,
     <<Page("d1", "Doc", "2", "tA", {"e1"}), Page("d2", "Doc", "1", "tA", noData)>>}

\* the theme sections a document leaves out
ThemeGaps == {{}, {"colors"}, ThemeSections}

Document(pgs, gaps, absent, nonObject, broken) ==
    [malformed |-> broken,
     scalar |-> nonObject,
     json |-> [pages |-> IF "pages" \in absent THEN <<>> ELSE pgs,
               event_routing |-> IF "event_routing" \in absent
                                 THEN <<>>
                                 ELSE <<Entry("e1", 1, 2, "2", <<>>)>>,
               templates |-> IF "templates" \in absent THEN {} ELSE {"tA", "tB", "header", "footer"},
               theme |-> [s \in ThemeSections |-> IF s \in gaps THEN undefined ELSE "set"],
               layout |-> IF "layout" \in absent
                          THEN Layout(undefined, undefined, undefined)
                          ELSE Layout("header", "footer", "logo"),
               split_test |-> "none",
               undef |-> absent]]

Required == {"pages", "theme", "templates"}

\* the last documents name a template of their own for the header
Documents ==
    {Document(p, g, u, {}, FALSE) :
        p \in DocPages, g \in ThemeGaps, u \in SUBSET {"layout", "event_routing"}}
    \cup {Document(p, {}, u, {}, FALSE) :
            p \in DocPages, u \in (SUBSET Required) \ {{}}}
    \cup {Document(p, {}, {}, {s}, FALSE) : p \in DocPages, s \in Required}
    \cup {Document(p, {}, {}, {}, TRUE) : p \in DocPages}
    \cup {[Document(p, {}, {}, {}, FALSE) EXCEPT
               !.json.layout = Layout("tB", "footer", "logo")] : p \in DocPages}

\* two pages; e1 routes to the next page or, as after the deletion of the
\* last pages of a longer funnel, to a path past the end
DocGraphs ==
    {Graph(<<Page("p1", "P", "1", "tA", {"e1"}), Page("p2", "P", "2", "tA", {})>>,
           <<Entry("e1", 1, 2, t, c)>>) :
        t \in {"2", "4"}, c \in {<<>>, <<Condition("f", "4")>>}}

InitDoc == InitStore(DocGraphs)

Aside == UNCHANGED <<probe, outputs>>

NextDoc ==
    \/ LoadConfig(MaxDocSteps, Documents) /\ Aside
    \/ UpdatePreviewPage(MaxDocSteps, {"tB"}) /\ Aside
    \/ AddPage(MaxDocSteps, {NewPageId(now)}, {{}}) /\ Aside
    \/ DuplicatePage(MaxDocSteps, {activePageId}) /\ Aside
    \/ ReorderPages(MaxDocSteps, {1}) /\ Aside
    \/ DeletePage(MaxDocSteps, {activePageId, "p9"}) /\ Aside
    \/ DeleteTemplate(MaxDocSteps, {"tA", "tB", "header"}) /\ Aside
    \/ SelectRouteTo(MaxDocSteps) /\ Aside
    \/ Undo(MaxDocSteps) /\ Aside
    \/ Redo(MaxDocSteps) /\ Aside
    \/ Validate(MaxDocSteps) /\ UNCHANGED <<probe, exported, view>>
    \/ DownloadConfig(MaxDocSteps) /\ UNCHANGED <<probe, issues, view>>

SpecDoc == InitDoc /\ [][NextDoc]_vars

(***************************************************************************)
(* Rendering engine (components/preview/TemplateRenderers.tsx).            *)
(*                                                                         *)
(* A JavaScript value is a record: its type, its characters when it is a   *)
(* string (a name for it otherwise), and its own properties when it is an  *)
(* object.  Strings are sequences of characters, so that startsWith is     *)
(* computed.  obj[key] reads an own property or, failing that, a property  *)
(* of Object.prototype.                                                    *)
(***************************************************************************)
JS(type, chars, props) == [t |-> type, s |-> chars, own |-> props]

Str(chars) == JS("string", chars, <<>>)

jsNull == JS("null", <<>>, <<>>)

jsUndefined == JS("undefined", <<>>, <<>>)

Object(props) == JS("object", <<>>, props)

Function(name) == JS("function", name, <<>>)

s_proto == <<"_", "_", "p", "r", "o", "t", "o", "_", "_">>

s_constructor == <<"c", "o", "n", "s", "t", "r", "u", "c", "t", "o", "r">>

\* the properties every plain object inherits that the model's names can hit
ObjectPrototype ==
    Object([k \in {s_proto, s_constructor} |->
               IF k = s_proto
               THEN JS("object", <<"O", "b", "j", "e", "c", "t", ".", "p">>, <<>>)
               ELSE Function(<<"O", "b", "j", "e", "c", "t">>)])

\* obj[key]
Get(obj, key) ==
    IF key \in DOMAIN obj.own
    THEN obj.own[key]
    ELSE IF key \in DOMAIN ObjectPrototype.own
         THEN ObjectPrototype.own[key]
         ELSE jsUndefined

startsWith(chars, c) == Len(chars) > 0 /\ chars[1] = c

\* a value taken as a condition
Falsy(v) == v.t \in {"null", "undefined"} \/ (v.t = "string" /\ v.s = <<>>)

resolveProp(value, data) ==
    IF value.t = "string" /\ startsWith(value.s, "_")
    THEN IF Falsy(data)
         THEN jsNull
         ELSE IF Get(data, value.s) # jsUndefined THEN Get(data, value.s) ELSE jsNull
    ELSE value

\* resolved[key] = ... for every own key of props; the assignment to the key
\* __proto__ goes to the setter of Object.prototype and makes no property
resolveProps(props, data) ==
    [key \in DOMAIN props \ {s_proto} |-> resolveProp(props[key], data)]

(***************************************************************************)
(* The recursive renderer.  A node names its component under 'component'   *)
(* or 'type'; its children are a list of nodes, a data reference, or       *)
(* absent.  Of the registered components only two kinds matter here: Page  *)
(* and Box place their children in their output, the others do not (Divider*)
(* stands for them).  What React makes of a node is an element with the    *)
(* outputs of the children it placed, the red "Unknown" box, nothing, or   *)
(* an error thrown while rendering, which takes down the whole tree.       *)
(***************************************************************************)
s_Page == <<"P", "a", "g", "e">>

s_Box == <<"B", "o", "x">>

s_Divider == <<"D", "i", "v", "i", "d", "e", "r">>

s_Hero == <<"H", "e", "r", "o">>

COMPONENT_REGISTRY ==
    Object([k \in {s_Page, s_Box, s_Divider} |-> Function(k)])

Containers == {s_Page, s_Box}

NoChildren == [t |-> "undefined", ref |-> <<>>, items |-> <<>>]

ChildList(nodes) == [t |-> "array", ref |-> <<>>, items |-> nodes]

ChildRef(chars) == [t |-> "string", ref |-> chars, items |-> <<>>]

Node(component, type, props, children) ==
    [component |-> component, type |-> type, props |-> props, children |-> children]

Output(kind, name, children) == [t |-> kind, name |-> name, children |-> children]

RECURSIVE RecursiveRenderer(_, _)
RecursiveRenderer(node, data) ==
    LET componentName == IF node.component # <<>> THEN node.component ELSE node.type
        Component == Get(COMPONENT_REGISTRY, componentName)
        resolvedProps == resolveProps(node.props, data)
        children == IF node.children.t = "array"
                    THEN [i \in DOMAIN node.children.items |->
                             RecursiveRenderer(node.children.items[i], data)]
                    ELSE <<>>
        \* children given as a data reference: the resolved value itself
        resolvedChildrenData == IF node.children.t = "string"
                                THEN resolveProp(Str(node.children.ref), data)
                                ELSE jsNull
    IN  IF componentName = <<>>
        THEN Output("null", <<>>, <<>>)
        ELSE IF Falsy(Component)
        THEN Output("placeholder", componentName, <<>>)
        ELSE IF componentName \notin DOMAIN COMPONENT_REGISTRY.own
        \* an inherited property is no component: React calls Object(props),
        \* gets an object that is no element, and throws; for __proto__ the
        \* element type itself is invalid
        THEN Output("throw", componentName, <<>>)
        ELSE IF componentName \in Containers
        THEN IF \/ \E i \in DOMAIN children : children[i].t = "throw"
                \/ resolvedChildrenData.t = "object"
             THEN Output("throw", componentName, <<>>)
             ELSE Output("element", componentName, children)
        ELSE Output("element", componentName, <<>>)

(***************************************************************************)
(* SpecRender: the resolver and the renderer applied to small inputs.      *)
(***************************************************************************)
\* deepest tree rendered, and most children of one node
MaxDepth == 2
MaxChildren == 2

k_title == <<"_", "t">>

k_cta == <<"_", "c">>

s_text == <<"t", "e", "x", "t">>

Values ==
    {Str(k_title), Str(k_cta), Str(s_proto), Str(<<"_">>), Str(<<"h", "i">>), Str(<<>>),
     JS("number", <<"7">>, <<>>), JS("boolean", <<"t">>, <<>>), jsNull, jsUndefined,
     Object(<<>>)}

Objects(keys, values) ==
    UNION {{Object(f) : f \in [K -> values]} : K \in SUBSET keys}

Datas ==
    {jsUndefined, jsNull}
    \cup Objects({k_title, k_cta}, {Str(<<"H", "i">>), JS("number", <<"7">>, <<>>)})

PropMaps ==
    {o.own : o \in Objects({s_text, <<"w">>, s_proto}, {Str(k_title), Str(<<"h", "i">>)})}

Kinds == {s_Page, s_Divider, s_Hero, s_constructor, <<>>}

RECURSIVE Lists(_, _)
Lists(S, n) ==
    IF n = 0
    THEN {<<>>}
    ELSE Lists(S, n - 1) \cup {Append(l, x) : l \in Lists(S, n - 1), x \in S}

RECURSIVE Trees(_)
Trees(depth) ==
    IF depth = 1
    THEN {Node(k, <<>>, <<>>, c) : k \in Kinds, c \in {NoChildren, ChildRef(k_title)}}
         \cup {Node(<<>>, s_Hero, <<>>, NoChildren)}
    ELSE Trees(depth - 1)
         \cup {Node(k, <<>>, <<>>, ChildList(l)) :
                  k \in Kinds, l \in Lists(Trees(depth - 1), MaxChildren) \ {<<>>}}

Call(op, input, output) == [op |-> op, in |-> input, out |-> output]

ResolveProp ==
    \E value \in Values, data \in Datas :
        view' = <<Call("resolveProp", <<value, data>>, resolveProp(value, data))>>

ResolveProps ==
    \E props \in PropMaps, data \in Datas :
        view' = <<Call("resolveProps", <<props, data>>, resolveProps(props, data))>>

Render ==
    \E node \in Trees(MaxDepth),
       data \in {jsUndefined, Object([k \in {k_title} |-> Str(<<"H", "i">>)])} :
        view' = <<Call("RecursiveRenderer", <<node, data>>, RecursiveRenderer(node, data))>>

Reading == UNCHANGED <<config, past, future, activePageId, now, lastOp, pre, probe,
                       issues, exported>>

InitRender == InitStore(StoreGraphs)

NextRender ==
    \/ ResolveProp /\ Reading
    \/ ResolveProps /\ Reading
    \/ Render /\ Reading

SpecRender == InitRender /\ [][NextRender]_vars

(***************************************************************************)
(* SpecApi: the structural edits as the other parts of the application may *)
(* call them (the AI panel passes page ids of its own making, reorderPages *)
(* takes any list of strings), next to the preview page of the template    *)
(* editor, and the Path Reindexer applied to page collections on its own.  *)
(***************************************************************************)
\* most operations in one behaviour of SpecApi
MaxApiSteps == 2
\* longest list handed to reorderPages
MaxOrder == 3

\* Object.keys(pages)
KeyOrder(pages) == [i \in DOMAIN pages |-> pages[i].key]

\* the lists reorderPages is called with: keys of the graph and a key that is
\* no page, any of them left out or repeated
Orders(pages) == Lists(Keys(pages) \cup {"p9"}, MaxOrder)

CallReorderPages(limit, orders) ==
    /\ Step(Outcome("reorderPages", Throws(config)), limit)
    /\ \E newOrder \in orders : reorderPages(newOrder)

\* the page collections reindexPages is applied to: objects of at most two
\* pages, with paths that are or are not their positions
Collections ==
    {fromEntries(l) : l \in
        {<<>>}
        \cup {<<Page(k, "P", pth, "tA", d)>> :
                 k \in {"7", "p1"}, pth \in {"1", "3", ""}, d \in {noData, {"e1"}}}
        \cup {<<Page(k[1], "P", pth[1], "tA", d), Page(k[2], "Q", pth[2], "tB", {})>> :
                 k \in {<<"p1", "p2">>, <<"p2", "p1">>, <<"p1", "7">>, <<"8", "7">>},
                 pth \in {"1", "2", "3", ""} \X {"1", "2", "0"},
                 d \in {noData, {"e1"}}}}

\* one call of reindexPages; the record holds the collection handed in as the
\* call left it (the function writes into a new object only) and the one
\* returned
Reindex(limit, collections) ==
    /\ Step("reindexPages", limit)
    /\ \E pages \in collections :
          view' = <<Call("reindexPages", <<pages>>, reindexPages(pages))>>
    /\ UNCHANGED <<config, past, future, activePageId>>

\* two pages, e1 owned by the first and routed to the next page, with a
\* condition that targets the first page, and e2 that has an answer key and
\* no route; the keys of the second graph are array indices
ApiGraphs ==
    {Graph(<<Page(k[1], "P", "1", "tA", {"e1"}), Page(k[2], "P", "2", "tA", {})>>,
           <<Entry("e1", 1, 2, "2", <<Condition("f", "1")>>),
             [EmptyEntry("e2", 3) EXCEPT !.quiz_answer = "goal"]>>) :
        k \in {<<"p1", "p2">>, <<"7", "8">>}}

InitApi == InitStore(ApiGraphs)

NextApi ==
    \/ Reindex(MaxApiSteps, Collections) /\ UNCHANGED <<probe, issues, exported>>
    \/ AddPage(MaxApiSteps, {NewPageId(now), "3"}, {{}}) /\ Aside
    \/ DuplicatePage(MaxApiSteps, Keys(config.pages) \cup {"p9"}) /\ Aside
    \/ CallReorderPages(MaxApiSteps, Orders(config.pages)) /\ Aside
    \/ DeletePage(MaxApiSteps, Keys(config.pages)) /\ Aside
    \/ UpdatePreviewPage(MaxApiSteps, {"tB"}) /\ Aside

SpecApi == InitApi /\ [][NextApi]_vars

(***************************************************************************)
(* Vocabulary of the properties.  pre is the config the last operation     *)
(* started from, config the one it left.                                   *)
(***************************************************************************)
Structural == {"addPage", "duplicatePage", "reorderPages", "deletePage"}

\* the page that owns the entry before the edit, null if none
OwnerBefore(e) ==
    LET om == buildEventOwnerMap(pre.pages, pre.event_routing)
    IN  IF e.name \in DOMAIN om THEN om[e.name] ELSE null

\* the entry routes to its owner's successor before the edit
SequentialBefore(e) ==
    /\ e.hasRoute
    /\ e.to # ""
    /\ OwnerBefore(e) # null
    /\ parseInt(e.to) = parseInt(PageOf(pre.pages, OwnerBefore(e)).path) + 1

After(e) == EntryOf(config.event_routing, e.name)

\* the keys of the pages at path p before the edit that are still there after it
Survivors(p) ==
    {pre.pages[i].key : i \in {j \in DOMAIN pre.pages :
        pre.pages[j].path = p /\ pre.pages[j].key \in Keys(config.pages)}}

PreEntries == {pre.event_routing[i] : i \in DOMAIN pre.event_routing}

\* C1: after any sequence of addPage, deletePage, duplicatePage and
\* reorderPages (with undo and redo between them) from a graph with paths
\* 1..N, the i-th page in collection order has path i, for every i in 1..N.
C1_PathInvariant ==
    \A i \in DOMAIN config.pages : config.pages[i].path = toString(i)

\* C1 witness: an edit has moved a page that was kept to a new path.
C1_Witness ==
    /\ lastOp \in Structural
    /\ \E i \in DOMAIN pre.pages :
          /\ pre.pages[i].key \in Keys(config.pages)
          /\ PageOf(config.pages, pre.pages[i].key).path # pre.pages[i].path
    /\ C1_PathInvariant

\* C2: after a structural edit, every entry that routed to its owner's old
\* path + 1, and whose owner is still a page, routes to the owner's new
\* path + 1.
C2_SequentialPreserved ==
    lastOp \in Structural =>
        \A e \in PreEntries :
            (SequentialBefore(e) /\ OwnerBefore(e) \in Keys(config.pages)) =>
                After(e).to =
                    toString(parseInt(PageOf(config.pages, OwnerBefore(e)).path) + 1)

\* C2 witness: the owner of a sequential entry has moved and the entry no
\* longer routes to the old slot.
C2_Witness ==
    /\ lastOp \in Structural
    /\ \E e \in PreEntries :
          /\ SequentialBefore(e)
          /\ OwnerBefore(e) \in Keys(config.pages)
          /\ PageOf(config.pages, OwnerBefore(e)).path
                # PageOf(pre.pages, OwnerBefore(e)).path
          /\ After(e).to # e.to
          /\ After(e).to =
                toString(parseInt(PageOf(config.pages, OwnerBefore(e)).path) + 1)

\* C3: after a structural edit, every entry whose route.to was not its
\* owner's old path + 1 and named the old path of a page T that is still
\* there routes to T's new path.
C3_CustomPreserved ==
    lastOp \in Structural =>
        \A e \in PreEntries :
            (e.hasRoute /\ e.to # "" /\ ~SequentialBefore(e)) =>
                \A t \in Survivors(e.to) :
                    After(e).to = PageOf(config.pages, t).path

\* C3 witness: the target of a custom route has moved and the route followed it.
C3_Witness ==
    /\ lastOp \in Structural
    /\ \E e \in PreEntries :
          /\ e.hasRoute /\ e.to # "" /\ ~SequentialBefore(e)
          /\ \E t \in Survivors(e.to) :
                /\ PageOf(config.pages, t).path # e.to
                /\ After(e).to = PageOf(config.pages, t).path

\* C4: after a structural edit, every condition target of every entry (with
\* or without a route.to) that named the old path of a page D that is still
\* there names D's new path.
C4_ConditionTargetsPreserved ==
    lastOp \in Structural =>
        \A e \in PreEntries :
            \A c \in DOMAIN e.conditions :
                \A d \in Survivors(e.conditions[c].target) :
                    After(e).conditions[c].target = PageOf(config.pages, d).path

\* the page at path p before the edit is gone after it
DeletedTarget(p) ==
    \E i \in DOMAIN pre.pages :
        pre.pages[i].path = p /\ pre.pages[i].key \notin Keys(config.pages)

\* C5: after deletePage has removed the page a non-sequential route.to
\* named, the entry keeps that value and the validator reports it as a route
\* to a non-existent path.
C5_DeletedTargetFlagged ==
    lastOp = "deletePage" =>
        \A e \in PreEntries :
            (e.hasRoute /\ e.to # "" /\ ~SequentialBefore(e) /\ DeletedTarget(e.to)) =>
                /\ After(e).to = e.to
                /\ e.name \in danglingRoutes(config)

\* C6: a structural edit that takes effect pushes the config it started
\* from, whole, as the one new snapshot of past (the older ones keep their
\* order, the oldest goes when past is full) and leaves a graph whose paths
\* and routing are both the new ones; an undo right after it gives back the
\* pages and the routing it started from.
C6_AtomicEdit ==
    [][/\ (lastOp' \in Structural /\ config' # config) =>
            /\ Len(past') = (IF Len(past) < MAX_HISTORY THEN Len(past) + 1 ELSE MAX_HISTORY)
            /\ past'[Len(past')] = config
            /\ \A j \in 1..(Len(past') - 1) :
                  past'[j] = past[j + Len(past) + 1 - Len(past')]
            /\ \A i \in DOMAIN config'.pages : config'.pages[i].path = toString(i)
            /\ config'.event_routing =
                  reindexEventRouting(config.pages, config'.pages,
                                      config.event_routing, NextRef).routing
       /\ (lastOp \in Structural /\ config # pre /\ lastOp' = "undo") =>
            /\ config'.pages = pre.pages
            /\ config'.event_routing = pre.event_routing
      ]_vars

\* C6 witness: an edit changed paths and routing together, was undone by one
\* undo, and the config is again the one the edit started from.
C6_Witness ==
    /\ lastOp = "undo"
    /\ Len(future) = 1
    /\ future[1].pages # config.pages
    /\ \E i \in DOMAIN config.event_routing :
          /\ config.event_routing[i].to # ""
          /\ future[1].event_routing[i].to # config.event_routing[i].to
    /\ \A i \in DOMAIN config.pages : config.pages[i].path = toString(i)

Mutations ==
    Structural \cup {"updatePage", "updateTheme", "updateLayout", "updateSplitTest",
                     "deleteTemplate", "handleRoutingChange", "addCondition",
                     "updateCondition", "selectRouteTo"}

\* C7: after k <= MAX_HISTORY mutations in a row, k undos and then k redos
\* leave config, past and future as they were right after the k mutations.
C7_UndoRedoSymmetry ==
    probe.phase = "done" => <<config, past, future>> = probe.saved

\* C7 witness: MAX_HISTORY mutations were undone and redone, and the store is back.
C7_Witness ==
    /\ probe.phase = "done"
    /\ probe.k = MAX_HISTORY
    /\ probe.u = probe.k
    /\ probe.r = probe.k
    /\ Len(past) = MAX_HISTORY
    /\ <<config, past, future>> = probe.saved

\* C8: after any mutation that took effect, the newest snapshot of past is
\* the config exactly as it was before the mutation.
C8_SnapshotKeepsOldValue ==
    (lastOp \in Mutations /\ config # pre) =>
        /\ Len(past) > 0
        /\ past[Len(past)] = pre

\* C9: past never holds more than MAX_HISTORY snapshots, and a mutation
\* applied while past is full drops the oldest snapshot, keeps the others in
\* order and puts the config it started from last.
C9_BoundedHistory ==
    /\ [](Len(past) <= MAX_HISTORY)
    /\ [][(lastOp' \in Mutations /\ past' # past /\ Len(past) = MAX_HISTORY) =>
            /\ Len(past') = MAX_HISTORY
            /\ \A j \in 1..(MAX_HISTORY - 1) : past'[j] = past[j + 1]
            /\ past'[MAX_HISTORY] = config
         ]_vars

\* C10: every mutation that goes through setConfig leaves future empty, and
\* a redo right after it changes nothing.
C10_MutationClearsFuture ==
    /\ []((lastOp \in Mutations /\ config # pre) => future = <<>>)
    /\ [][(lastOp \in Mutations /\ config # pre /\ lastOp' = "redo") =>
            UNCHANGED <<config, past, future>>]_vars

\* C10 witness: a mutation was applied while future held a config, and
\* future is empty after it.
C10_Witness ==
    /\ lastOp \in Mutations
    /\ config # pre
    /\ probe.cleared > 0
    /\ future = <<>>

\* C11: an undo called while past is empty and a redo called while future is
\* empty change neither the config nor past nor future.
C11_EmptyStackNoOp ==
    [][/\ (lastOp' = "undo" /\ past = <<>>) => UNCHANGED <<config, past, future>>
       /\ (lastOp' = "redo" /\ future = <<>>) => UNCHANGED <<config, past, future>>
      ]_vars

\* C11 witness: a redo was called after an edit, with nothing to redo, and
\* the store is as the edit left it.
C11_Witness ==
    /\ lastOp = "redo"
    /\ future = <<>>
    /\ Len(past) = 1
    /\ config = pre
    /\ past[1] # config

PathsInOrder(cfg) == \A i \in DOMAIN cfg.pages : cfg.pages[i].path = toString(i)

\* C12: after updatePage(pageId, cfg) on a graph whose paths are 1..N, for an
\* existing or a new pageId (the preview page written with path "0"), the
\* paths of the graph are 1..N in collection order.
C12_UpdatePageKeepsPaths ==
    (lastOp = "updatePreviewPage" /\ config # pre /\ PathsInOrder(pre)) =>
        PathsInOrder(config)

\* C13: a deletePage call made while the graph holds one page, or with an id
\* that is no page of the graph, changes neither the config (pages and
\* routing) nor past nor future nor the active page id.
C13_DeletePageGuard ==
    [][\A pageId \in Keys(config.pages) \cup {activePageId, "p9"} :
          (/\ lastOp' = "deletePage"
           /\ deletePage(pageId)
           /\ (Len(config.pages) = 1 \/ pageId \notin Keys(config.pages))) =>
              UNCHANGED <<config, past, future, activePageId>>
      ]_vars

\* C13 witness: deletePage was called on a graph of two or more pages with
\* ids none of which is a page (the active id is stale), and past is still empty
\* though the graph has been edited before.
C13_Witness ==
    /\ lastOp = "deletePage"
    /\ Len(config.pages) >= 2
    /\ {activePageId, "p9"} \cap Keys(config.pages) = {}
    /\ config = pre
    /\ past = <<>>
    /\ future # <<>>

\* C14: a deleteTemplate call for a template that a page uses, or for the
\* reserved header or footer template, changes neither templates nor pages nor
\* past nor future; and when every page's template is in the catalogue before
\* a deleteTemplate call, every page's template is in it after the call.
C14_DeleteTemplateGuard ==
    [][\A name \in config.templates \cup {"header", "footer"} :
          (lastOp' = "deleteTemplate" /\ deleteTemplate(name)) =>
              /\ ((\/ name \in {"header", "footer"}
                   \/ \E i \in DOMAIN config.pages : config.pages[i].template = name) =>
                      UNCHANGED <<config, past, future>>)
              /\ ((\A i \in DOMAIN config.pages :
                      config.pages[i].template \in config.templates) =>
                  (\A i \in DOMAIN config'.pages :
                      config'.pages[i].template \in config'.templates))
      ]_vars

\* C14 witness: deleteTemplate has removed a template that no page uses,
\* the reserved ones and the used ones are all still there.
C14_Witness ==
    /\ lastOp = "deleteTemplate"
    /\ config.templates # pre.templates
    /\ {"header", "footer"} \subseteq config.templates
    /\ \A i \in DOMAIN config.pages : config.pages[i].template \in config.templates

\* the places in the list where the validator reports the route.to of entry e
RouteIssues(list, e) ==
    {k \in DOMAIN list : /\ list[k].kind = "routes to non-existent path"
                         /\ list[k].subject = e.name}

\* C15: the list validate() returns holds, for every routing entry whose
\* non-empty route.to is no page's path, exactly one issue for that route.to,
\* of severity error, naming the entry and quoting the path; for an entry
\* whose route.to is some page's path it holds none.
C15_ValidatorDanglingRoutes ==
    lastOp = "validateConfig" =>
        \A j \in DOMAIN config.event_routing :
            LET e == config.event_routing[j]
                found == RouteIssues(issues, e)
            IN  IF e.hasRoute /\ e.to # ""
                   /\ ~\E i \in DOMAIN config.pages : config.pages[i].path = e.to
                THEN /\ Cardinality(found) = 1
                     /\ \A k \in found : /\ issues[k].type = "error"
                                         /\ issues[k].detail = e.to
                ELSE found = {}

\* C15 witness: the validator has reported one dangling route.to next to
\* another error of the same entry (a dangling condition target).
C15_Witness ==
    /\ lastOp = "validateConfig"
    /\ \E j \in DOMAIN config.event_routing :
          /\ Cardinality(RouteIssues(issues, config.event_routing[j])) = 1
          /\ \E k \in DOMAIN issues :
                /\ issues[k].kind = "condition routes to non-existent path"
                /\ issues[k].subject = config.event_routing[j].name

\* a document that lacks one of pages, theme, templates (or is no JSON)
Unacceptable(doc) ==
    \/ doc.malformed
    \/ doc.scalar # {}
    \/ doc.json.undef \cap {"pages", "theme", "templates"} # {}

\* C16: loading a document that lacks pages, theme or templates changes
\* neither config nor past nor future nor the active page id; loading any
\* other document makes config the document, with every theme section it
\* lacks set to an empty object and a lacking layout set to the default one.
C16_ImportAllOrNothing ==
    [][\A doc \in Documents :
          (lastOp' = "loadConfig" /\ loadConfig(doc)) =>
              IF Unacceptable(doc)
              THEN UNCHANGED <<config, past, future, activePageId>>
              ELSE /\ config'.pages = doc.json.pages
                   /\ config'.templates = doc.json.templates
                   /\ config'.event_routing = doc.json.event_routing
                   /\ config'.split_test = doc.json.split_test
                   /\ \A s \in ThemeSections :
                         config'.theme[s] = IF doc.json.theme[s] = undefined
                                            THEN emptyObject
                                            ELSE doc.json.theme[s]
                   /\ config'.layout = IF "layout" \in doc.json.undef
                                       THEN DefaultLayout
                                       ELSE doc.json.layout
                   /\ config'.undef = doc.json.undef \ {"layout"}
      ]_vars

\* C16 witness: a document without layout and without any theme section has
\* been loaded over an edited graph.
C16_Witness ==
    /\ lastOp = "loadConfig"
    /\ now >= 2
    /\ config # pre
    /\ config.layout = DefaultLayout
    /\ \A s \in ThemeSections : config.theme[s] = emptyObject
    /\ Len(config.pages) = 2

\* C17: no structural edit fails, whatever graph the store holds, one
\* imported without event_routing and with pages without template_data
\* included.
C17_StructuralEditsTotal ==
    lastOp # "TypeError"

\* C18: the document the export step produces has paths 1..N, and every
\* route.to and condition target that names a page of the live graph other
\* than the preview page names, in the document, the page of the same key.
C18_ExportKeepsRoutes ==
    (lastOp = "downloadConfig" /\ exported # <<>>) =>
        LET doc == exported[1]
            named(p) == {config.pages[i].key : i \in
                            {n \in DOMAIN config.pages :
                                /\ config.pages[n].path = p
                                /\ config.pages[n].key # previewPageId}}
        IN  /\ PathsInOrder(doc)
            /\ \A j \in DOMAIN config.event_routing :
                  /\ \A k \in named(config.event_routing[j].to) :
                        doc.event_routing[j].to = PageOf(doc.pages, k).path
                  /\ \A c \in DOMAIN config.event_routing[j].conditions :
                        \A k \in named(config.event_routing[j].conditions[c].target) :
                            doc.event_routing[j].conditions[c].target
                                = PageOf(doc.pages, k).path

\* what the binding resolver is to return
Resolved(value, data) ==
    IF value.t = "string" /\ startsWith(value.s, "_")
    THEN IF data.t = "object" /\ value.s \in DOMAIN data.own
         THEN data.own[value.s]
         ELSE jsNull
    ELSE value

\* C19: resolve(value, data) is data[value] when value is a string that
\* starts with '_' and data has that key, null when value is such a string
\* and data lacks the key or is missing, and value itself otherwise;
\* resolveAll gives a map with the keys of the attribute map, each resolved
\* on its own.
C19_ResolverContract ==
    /\ (view # <<>> /\ view[1].op = "resolveProp") =>
          view[1].out = Resolved(view[1].in[1], view[1].in[2])
    /\ (view # <<>> /\ view[1].op = "resolveProps") =>
          /\ DOMAIN view[1].out = DOMAIN view[1].in[1]
          /\ \A key \in DOMAIN view[1].out :
                view[1].out[key] = Resolved(view[1].in[1][key], view[1].in[2])

NameOf(node) == IF node.component # <<>> THEN node.component ELSE node.type

Unregistered(node) ==
    NameOf(node) # <<>> /\ NameOf(node) \notin DOMAIN COMPONENT_REGISTRY.own

RECURSIVE HasUnregistered(_)
HasUnregistered(node) ==
    \/ Unregistered(node)
    \/ \E i \in DOMAIN node.children.items : HasUnregistered(node.children.items[i])

\* the output shows the placeholder of every node of unregistered kind, an
\* element for each of its ancestors, and something for each of its siblings
RECURSIVE Shown(_, _)
Shown(node, out) ==
    IF Unregistered(node)
    THEN out.t = "placeholder" /\ out.name = NameOf(node)
    ELSE HasUnregistered(node) =>
            /\ out.t = "element"
            /\ Len(out.children) = Len(node.children.items)
            /\ \A i \in DOMAIN node.children.items :
                  /\ out.children[i].t # "throw"
                  /\ Shown(node.children.items[i], out.children[i])

\* C20: for a tree with a node of unregistered kind, the output has the
\* placeholder of that node and the outputs of its siblings and ancestors,
\* and the output of the whole tree is not empty.
C20_UnknownKindPlaceholder ==
    (view # <<>> /\ view[1].op = "RecursiveRenderer" /\ HasUnregistered(view[1].in[1])) =>
        /\ view[1].out.t \notin {"throw", "null"}
        /\ Shown(view[1].in[1], view[1].out)

\* a routing table without the identities of its objects
Plain(routing) == [i \in DOMAIN routing |-> [routing[i] EXCEPT !.ref = 0, !.rref = 0]]

\* C21: reindex applied to its own result gives that result again, for every
\* page collection; and reorderPages called with the keys of the graph in
\* their current order leaves pages and event_routing with the values they
\* had.
C21_ReindexIdempotent ==
    /\ []((view # <<>> /\ view[1].op = "reindexPages") =>
              reindexPages(view[1].out) = view[1].out)
    /\ [][(lastOp' = "reorderPages" /\ reorderPages(KeyOrder(config.pages))) =>
              /\ config'.pages = config.pages
              /\ Plain(config'.event_routing) = Plain(config.event_routing)
         ]_vars

\* C22: reindex returns a collection with the keys of its input in the same
\* order, in which every page has the fields it had but for path, and leaves
\* the collection it was given as it was (the snapshot that holds the pages
\* a structural edit started from keeps them).
C22_ReindexFrame ==
    /\ (view # <<>> /\ view[1].op = "reindexPages") =>
          LET input == view[1].in[1]
              out == view[1].out
          IN  /\ KeyOrder(out) = KeyOrder(input)
              /\ \A i \in DOMAIN input : [out[i] EXCEPT !.path = input[i].path] = input[i]
    /\ (lastOp \in Structural /\ config # pre) =>
          /\ Len(past) > 0
          /\ past[Len(past)].pages = pre.pages

\* C22 witness: reindex has renumbered a collection of two different pages
\* whose paths were not their positions, one of them with template_data.
C22_Witness ==
    /\ view # <<>>
    /\ view[1].op = "reindexPages"
    /\ Len(view[1].in[1]) = 2
    /\ view[1].in[1][1].path = "3"
    /\ view[1].in[1][1].data = {"e1"}
    /\ view[1].in[1][2].path = "0"
    /\ view[1].out[1].path = "1"
    /\ view[1].out[2].path = "2"
    /\ view[1].out[1].data = {"e1"}
    /\ view[1].out[2].name = "Q"

\* the first place of key in list, 0 when it is not listed
FirstAt(list, key) ==
    IF \E i \in DOMAIN list : list[i] = key
    THEN CHOOSE i \in DOMAIN list : list[i] = key /\ \A j \in 1..(i - 1) : list[j] # key
    ELSE 0

\* C23: for any newOrder (one that omits keys of the graph, repeats keys or
\* lists keys that are no page included), the set of page keys after
\* reorderPages(newOrder) is the set before, and the keys of the graph that
\* newOrder lists stand in the collection in the order newOrder lists them.
C23_ReorderOnlyPermutes ==
    [][\A newOrder \in Orders(config.pages) :
          (lastOp' = "reorderPages" /\ reorderPages(newOrder)) =>
              /\ Keys(config'.pages) = Keys(config.pages)
              /\ \A a, b \in Keys(config.pages) :
                    (/\ FirstAt(newOrder, a) > 0
                     /\ FirstAt(newOrder, a) < FirstAt(newOrder, b)) =>
                        IndexOf(config'.pages, a) < IndexOf(config'.pages, b)
      ]_vars

\* C24: duplicatePage(p) for a page p of the graph gives a collection of one
\* page more, in which the copy stands right after p, the other pages keep
\* their order, and the copy has the template and the template_data of p;
\* for a p that is no page of the graph it changes neither config nor past
\* nor future.
C24_DuplicatePlacement ==
    [][\A p \in Keys(config.pages) \cup {"p9"} :
          (lastOp' = "duplicatePage" /\ duplicatePage(p)) =>
              IF p \in Keys(config.pages)
              THEN LET i == IndexOf(config.pages, p)
                       n == Len(config.pages)
                   IN  /\ Len(config'.pages) = n + 1
                       /\ \A j \in 1..i : config'.pages[j].key = config.pages[j].key
                       /\ \A j \in (i + 1)..n : config'.pages[j + 1].key = config.pages[j].key
                       /\ config'.pages[i + 1].key \notin Keys(config.pages)
                       /\ config'.pages[i + 1].template = config.pages[i].template
                       /\ config'.pages[i + 1].data = config.pages[i].data
              ELSE UNCHANGED <<config, past, future>>
      ]_vars

\* the places, in the graph before the edit, of the pages whose data hold
\* the name of entry e
Referrers(e) ==
    {i \in DOMAIN pre.pages : pre.pages[i].data # noData /\ e.name \in pre.pages[i].data}

\* entry e routes to the successor of the page at place i of the graph before
\* the edit
NextOf(e, i) == parseInt(e.to) = parseInt(pre.pages[i].path) + 1

\* route.to of e after the edit when the page at place owner (0: no page)
\* is taken for its owner: the successor of the owner when e named the
\* owner's successor and the owner is kept, and otherwise the new path of
\* the page e named, or the old value when that page is gone or did not move
ToWithOwner(e, owner) ==
    IF ~e.hasRoute \/ e.to = ""
    THEN e.to
    ELSE IF /\ owner # 0
            /\ NextOf(e, owner)
            /\ pre.pages[owner].key \in Keys(config.pages)
         THEN toString(parseInt(PageOf(config.pages, pre.pages[owner].key).path) + 1)
         ELSE IF Survivors(e.to) # {}
              THEN PageOf(config.pages, CHOOSE t \in Survivors(e.to) : TRUE).path
              ELSE e.to

\* C25: every structural edit takes for the owner of an entry the last page,
\* in the order of the graph before the edit, whose data hold the entry's
\* name, and rewrites route.to by the rule for that owner; an entry that no
\* page of the graph before the edit references has no owner and its
\* route.to is never rewritten as a sequential one.
C25_OwnerIsLastReferrer ==
    lastOp \in Structural =>
        \A e \in PreEntries : After(e).to = ToWithOwner(e, Max(Referrers(e)))

\* C25 witness: two pages referenced the entry, which named the successor of
\* the last of them and not of the first; the edit moved that page, and
\* route.to is the successor of its new place, not what the first page as
\* owner would have given.
C25_Witness ==
    /\ lastOp \in Structural
    /\ \E e \in PreEntries :
          /\ Cardinality(Referrers(e)) >= 2
          /\ e.hasRoute
          /\ NextOf(e, Max(Referrers(e)))
          /\ After(e).to # e.to
          /\ After(e).to = ToWithOwner(e, Max(Referrers(e)))
          /\ \E first \in Referrers(e) :
                /\ \A i \in Referrers(e) : first <= i
                /\ After(e).to # ToWithOwner(e, first)

\* a page of cfg references an entry that routes to the page's own path
SelfLoop(cfg) ==
    \E i \in DOMAIN cfg.pages, j \in DOMAIN cfg.event_routing :
        /\ cfg.pages[i].data # noData
        /\ cfg.event_routing[j].name \in cfg.pages[i].data
        /\ cfg.event_routing[j].hasRoute
        /\ cfg.event_routing[j].to = cfg.pages[i].path

\* C26: when no page of the graph references an entry whose route.to is the
\* page's own path, the same holds after addPage, duplicatePage,
\* reorderPages and deletePage.
C26_NoNewSelfLoop ==
    (lastOp \in Structural /\ ~SelfLoop(pre)) => ~SelfLoop(config)

\* every route.to and every condition target of cfg is the path of a page
Resolvable(cfg) ==
    \A j \in DOMAIN cfg.event_routing :
        LET e == cfg.event_routing[j]
        IN  /\ (e.hasRoute /\ e.to # "") => e.to \in validPaths(cfg)
            /\ \A c \in DOMAIN e.conditions :
                  e.conditions[c].target # "" => e.conditions[c].target \in validPaths(cfg)

\* the errors of the validator for routes and condition targets
DanglingIssues(cfg) ==
    {i \in DOMAIN validateConfig(cfg) :
        /\ validateConfig(cfg)[i].type = "error"
        /\ validateConfig(cfg)[i].field = "event_routing"}

\* C27: when every route.to and every condition target names the path of a
\* page before reorderPages is called with a permutation of the page keys,
\* they all do afterwards, and the validator reports no dangling route or
\* target.
C27_ReorderKeepsResolvable ==
    (lastOp = "reorderPages" /\ Resolvable(pre)) =>
        /\ Resolvable(config)
        /\ DanglingIssues(config) = {}

\* C28: in every reachable state past and future together hold at most
\* MAX_HISTORY snapshots; an undo and a redo leave the number of snapshots
\* held as it was; loading a document that is accepted leaves past and
\* future empty.
C28_HistoryBounded ==
    /\ [](Len(past) + Len(future) <= MAX_HISTORY)
    /\ [][lastOp' \in {"undo", "redo"} =>
              Len(past') + Len(future') = Len(past) + Len(future)]_vars
    /\ [][\A doc \in Documents :
              (lastOp' = "loadConfig" /\ loadConfig(doc) /\ ~Unacceptable(doc)) =>
                  (past' = <<>> /\ future' = <<>>)]_vars

\* C28 witness: after as many mutations as past can hold and one undo, past
\* and future hold MAX_HISTORY snapshots between them.
C28_Witness ==
    /\ lastOp = "undo"
    /\ Len(past) >= 1
    /\ Len(future) >= 1
    /\ Len(past) + Len(future) = MAX_HISTORY

\* the templates the layout of cfg names for its header and its footer
LayoutTemplates(cfg) == {cfg.layout.header, cfg.layout.footer}

\* C29: when the templates that the layout names for the header and for the
\* footer are in the catalogue before a deleteTemplate call, they are in it
\* after the call, whatever their names.
C29_LayoutTemplatesKept ==
    (lastOp = "deleteTemplate" /\ LayoutTemplates(pre) \subseteq pre.templates) =>
        LayoutTemplates(config) \subseteq config.templates

\* what a migration may not touch in an entry: everything but route.to and
\* the targets of the conditions
Frame(e) ==
    [name |-> e.name, hasRoute |-> e.hasRoute, quiz_answer |-> e.quiz_answer,
     conditions |-> [c \in DOMAIN e.conditions |-> [e.conditions[c] EXCEPT !.target = ""]]]

\* C30: a structural edit leaves the routing table with the entries it had,
\* under the same names and in the same order, and with every field of
\* every entry as it was but for route.to and the targets of the conditions;
\* an entry without a route has the value it had.
C30_MigrationFrame ==
    lastOp \in Structural =>
        /\ Len(config.event_routing) = Len(pre.event_routing)
        /\ \A j \in DOMAIN pre.event_routing :
              /\ Frame(config.event_routing[j]) = Frame(pre.event_routing[j])
              /\ ~pre.event_routing[j].hasRoute =>
                    Plain(config.event_routing)[j] = Plain(pre.event_routing)[j]

\* C30 witness: an edit has rewritten route.to and a condition target of one
\* entry, next to an entry that has an answer key and no route.
C30_Witness ==
    /\ lastOp \in Structural
    /\ \E j, k \in DOMAIN pre.event_routing :
          /\ config.event_routing[j].to # pre.event_routing[j].to
          /\ Len(pre.event_routing[j].conditions) = 1
          /\ config.event_routing[j].conditions[1].target
                # pre.event_routing[j].conditions[1].target
          /\ config.event_routing[j].conditions[1].field = "f"
          /\ ~pre.event_routing[k].hasRoute
          /\ config.event_routing[k].quiz_answer = "goal"

====
